---- MODULE Spec2Model ----
(***************************************************************************)
(* Model of the record reconciliation and persistence layer of             *)
(* src/app.py (Daily Activity Tracker).                                    *)
(*                                                                         *)
(* One script run of the Streamlit page is one step: a page view           *)
(* (View), a click on "Save All" (Submit), a click on "Force Reload       *)
(* Data File" (ForceReload) or a run that a form widget ends with an       *)
(* exception (FormError).  The state is what survives a run: the           *)
(* tracker file, the legacy file, the st.cache_data entry of load_data     *)
(* and st.session_state, plus the locals of the last run that the user     *)
(* sees (the table shown, the message, the outcome of save_data).          *)
(* Between two runs another process may replace the tracker file           *)
(* (ExternalEdit, in SpecCache only).                                      *)
(*                                                                         *)
(* Values.  A cell of a DataFrame is a tagged tuple: <<"int", n>>,         *)
(* <<"str", s>> or <<"nan">>.  The Date column holds plain strings.  The   *)
(* int64/float64 distinction of pandas columns is not modelled: the code   *)
(* compares numeric cells only after int(), which erases it.               *)
(***************************************************************************)
EXTENDS Integers, Sequences, FiniteSets, TLC

\* ------------------------------------------------------------ bounds
\* Number of script runs explored from every initial store (Spec).
MaxRuns == 2
\* Number of script runs explored in a session on one date (SpecSession).
MaxSessionRuns == 3
\* Number of writes that fail (raise) in one behaviour.
MaxFaults == 1
\* Number of script runs explored while another process edits the file
\* (SpecCache).
MaxCacheRuns == 4

\* ------------------------------------------------------------ values
I(n) == <<"int", n>>
S(s) == <<"str", s>>
NaN == <<"nan">>
Empty == S("")

\* pd.isna on a scalar
isna(v) == v = NaN
\* Python truthiness of a scalar: 0 and '' are falsy, NaN is truthy
truthy(v) == ~(v = I(0) \/ v = Empty)

\* ------------------------------------------------------------ schema
\* The categories dict, one field of each of its three kinds, in dict order.
CategoryOrder == <<"Exercise", "THC", "Vibe">>
CategoryNames == {CategoryOrder[i] : i \in 1..Len(CategoryOrder)}
EnumValues == <<"bad", "neutral", "good">>
SliderMin == 1
SliderMax == 10
categories(c) ==
    CASE c = "Exercise" -> [type |-> "integer"]
      [] c = "THC" -> [type |-> "enum"]
      [] c = "Vibe" -> [type |-> "slider"]

\* The default of a field's type: 0, the first enum value, the slider's min
FieldDefault(c) ==
    CASE categories(c).type = "integer" -> I(0)
      [] categories(c).type = "enum" -> S(EnumValues[1])
      [] categories(c).type = "slider" -> I(SliderMin)

\* Values the form widgets can hand to the handler (number_input with
\* min_value=0, selectbox over the enum values, slider over min..max).
WidgetValues(c) ==
    CASE categories(c).type = "integer" -> {I(0), I(30)}
      [] categories(c).type = "enum" -> {S(EnumValues[1]), S(EnumValues[3])}
      [] categories(c).type = "slider" -> {I(SliderMin), I(SliderMax)}
AllWidgetValues == UNION {WidgetValues(c) : c \in CategoryNames}
\* new_data without its Date: a value for every category
Form(ex, thc, vibe) ==
    [c \in CategoryNames |->
        CASE c = "Exercise" -> ex [] c = "THC" -> thc [] c = "Vibe" -> vibe]

\* ------------------------------------------------------------ dates
\* selected_date_str: strftime('%Y-%m-%d') of the date picker.
Dates == {"2024-01-01", "2024-01-02"}
\* Date cells a tracker file may hold: canonical, another spelling of the
\* same day, and text that is no date.
BadDate == "not-a-date"
\* pd.to_datetime(s) raises on text that is no date
Parseable(s) == s \in Dates \cup {"Jan 1 2024", "Jan 2 2024"}
\* pd.to_datetime(s).strftime('%Y-%m-%d')
to_datetime_strftime(s) ==
    CASE s = "Jan 1 2024" -> "2024-01-01"
      [] s = "Jan 2 2024" -> "2024-01-02"
      [] OTHER -> s

\* ------------------------------------------------------------ tables
\* A row of the DataFrame / a line of the CSV.
Row(d, ex, thc, vibe) == [Date |-> d, Exercise |-> ex, THC |-> thc, Vibe |-> vibe]
\* {'Date': selected_date_str} plus the widget values (lines 261, 380-408)
NewData(d, f) == Row(d, f["Exercise"], f["THC"], f["Vibe"])
\* pd.DataFrame(columns=[...]): the schema's columns and no rows
EmptyFrame == <<>>

DatesOf(rows) == {rows[i].Date : i \in 1..Len(rows)}

\* Function to check if data exists for a specific date
data_exists_for_date(df, date_str) == date_str \in DatesOf(df)

\* Function to get data for a specific date: the first row of that date,
\* or '' for every column
get_data_for_date(df, date_str) ==
    IF data_exists_for_date(df, date_str)
    THEN df[CHOOSE i \in 1..Len(df) :
                /\ df[i].Date = date_str
                /\ \A j \in 1..(i - 1) : df[j].Date # date_str]
    ELSE Row("", Empty, Empty, Empty)

\* ------------------------------------------------------------ files
Absent == [kind |-> "absent", rows |-> <<>>]
\* content pd.read_csv raises on (zero bytes, undecodable bytes)
Corrupt == [kind |-> "corrupt", rows |-> <<>>]
Csv(rows) == [kind |-> "csv", rows |-> rows]

\* df.to_csv(path, index=False): the file is opened for writing, which
\* truncates it, and then written.  It either completes, or raises before
\* the file is opened (permission denied: content untouched), or raises
\* after (disk full: nothing, or only the first lines, were written).
\* A file cut after the header alone reads as the empty frame, as the
\* file of zero bytes does, and is not listed apart.
to_csv(old, rows) ==
    {[ok |-> TRUE, file |-> Csv(rows)]}
    \cup {[ok |-> FALSE, file |-> old]}
    \cup {[ok |-> FALSE, file |-> Corrupt]}
    \cup {[ok |-> FALSE, file |-> Csv(SubSeq(rows, 1, k))] : k \in 1..(Len(rows) - 1)}

\* ------------------------------------------------------------ cache
\* @st.cache_data(ttl=10): the entry of load_data and its age
TTL == 10
NoCache == [full |-> FALSE, df |-> <<>>, age |-> 0]
\* the waits between two runs: none, and long enough for the entry to expire
Elapsed == {0, TTL}
Min(a, b) == IF a < b THEN a ELSE b
\* time passing between two runs
Elapse(c, dt) == IF c.full THEN [c EXCEPT !.age = Min(@ + dt, TTL)] ELSE c
\* an entry that never expires
CacheHit_NoExpiry(c) == c.full

CacheHit(c) == c.full /\ c.age < TTL

\* ------------------------------------------------------------ load_data
\* a migration that copies whenever the old location holds a file
Migrate_Always(f, old) ==
    IF old.kind = "csv"
    THEN {[file |-> w.file, nfail |-> IF w.ok THEN 0 ELSE 1] :
             w \in to_csv(f, old.rows)}
    ELSE {[file |-> f, nfail |-> 0]}

\* lines 82-99: data in the old location is copied when the tracker file
\* is missing; an exception is logged and swallowed.
Migrate(f, old) ==
    IF old.kind # "absent" /\ f.kind = "absent"
    THEN IF old.kind = "corrupt"
         THEN {[file |-> f, nfail |-> 0]}
         ELSE {[file |-> w.file, nfail |-> IF w.ok THEN 0 ELSE 1] :
                  w \in to_csv(f, old.rows)}
    ELSE {[file |-> f, nfail |-> 0]}

\* Mutant: the Date column is returned as it is stored.
ReadTracker_NoNormalize(f) ==
    IF f.kind = "csv"
    THEN IF \A i \in 1..Len(f.rows) : Parseable(f.rows[i].Date)
         THEN f.rows
         ELSE EmptyFrame
    ELSE EmptyFrame

\* Mutant: a date that does not parse is kept; nothing falls back to the
\* empty frame.
ReadTracker_NoFallback(f) ==
    [i \in 1..Len(f.rows) |->
        [f.rows[i] EXCEPT !.Date = to_datetime_strftime(@)]]

\* Mutant: the cells left empty are read as the defaults of their fields.
ReadTracker_FillsUnset(f) ==
    IF f.kind = "csv"
    THEN IF \A i \in 1..Len(f.rows) : Parseable(f.rows[i].Date)
         THEN [i \in 1..Len(f.rows) |->
                  [c \in DOMAIN f.rows[i] |->
                      IF c = "Date" THEN to_datetime_strftime(f.rows[i].Date)
                      ELSE IF isna(f.rows[i][c]) THEN FieldDefault(c)
                      ELSE f.rows[i][c]]]
         ELSE EmptyFrame
    ELSE EmptyFrame

\* lines 101-121: read the file and normalise its Date column; any
\* exception, and a missing file, give the empty frame.
ReadTracker(f) ==
    IF f.kind = "csv"
    THEN IF \A i \in 1..Len(f.rows) : Parseable(f.rows[i].Date)
         THEN [i \in 1..Len(f.rows) |->
                  [f.rows[i] EXCEPT !.Date = to_datetime_strftime(@)]]
         ELSE EmptyFrame
    ELSE EmptyFrame

\* The cached function: the results a call can have, each with the file
\* and the cache it leaves (nfail counts the writes that raised, read
\* tells that the body ran, which the log shows).
load_data(f, old, c) ==
    IF CacheHit(c)
    THEN {[df |-> c.df, file |-> f, cache |-> c, nfail |-> 0, read |-> FALSE]}
    ELSE {[df |-> ReadTracker(m.file), file |-> m.file,
           cache |-> [full |-> TRUE, df |-> ReadTracker(m.file), age |-> 0],
           nfail |-> m.nfail, read |-> TRUE] :
              m \in Migrate(f, old)}

\* Mutant: the cache is not cleared after the write.
save_data_KeepsCache(f, c, df) ==
    {[ok |-> w.ok, file |-> w.file, cache |-> c] : w \in to_csv(f, df)}
    \cup {[ok |-> FALSE, file |-> Csv(df), cache |-> c]}

\* save_data: to_csv, the read-back of the first lines, then
\* load_data.clear() and True; False when anything raised.  The read-back
\* can raise after to_csv has completed (a file that may be written but
\* not read): the table is on disk, the cache is kept, the result is False.
save_data(f, c, df) ==
    {[ok |-> w.ok, file |-> w.file, cache |-> IF w.ok THEN NoCache ELSE c] :
        w \in to_csv(f, df)}
    \cup {[ok |-> FALSE, file |-> Csv(df), cache |-> c]}

\* ------------------------------------------------------------ session
\* st.session_state dicts keyed by date
EmptyDict == [x \in {} |-> <<>>]
Put(m, k, v) == [x \in DOMAIN m \cup {k} |-> IF x = k THEN v ELSE m[x]]

\* a marking that appends without looking at the list
mark_field_submitted_Appends(sf, date, field) ==
    Put(sf, date, Append(IF date \in DOMAIN sf THEN sf[date] ELSE <<>>, field))

\* Function to mark a field as submitted for a specific date (the list of
\* the date is created when missing, the field appended when not in it)
mark_field_submitted(sf, date, field) ==
    LET cur == IF date \in DOMAIN sf THEN sf[date] ELSE <<>>
    IN Put(sf, date,
           IF \E i \in 1..Len(cur) : cur[i] = field THEN cur ELSE Append(cur, field))

\* Function to check if a field has been submitted for a specific date
is_field_submitted(sf, date, field) ==
    /\ date \in DOMAIN sf
    /\ \E i \in 1..Len(sf[date]) : sf[date][i] = field

\* mark_field_submitted for each field of a list, in order
RECURSIVE MarkEach(_, _, _)
MarkEach(sf, date, fields) ==
    IF fields = <<>> THEN sf
    ELSE MarkEach(mark_field_submitted(sf, date, Head(fields)), date, Tail(fields))

\* ------------------------------------------------------------ reconciler
\* int() of a numeric cell
int(v) == CASE v[1] = "int" -> v

\* lines 381, 391, 401: the value a widget starts at, from the row of the
\* date ('' in every column when the date has none)
default_val(c, existing_data) ==
    IF truthy(existing_data[c]) /\ ~isna(existing_data[c])
    THEN IF categories(c).type = "enum" THEN existing_data[c] ELSE int(existing_data[c])
    ELSE FieldDefault(c)

\* st.slider(min_value, max_value, value) with a value outside min..max:
\* the widget either raises or widens its range to hold the value,
\* whichever the installed Streamlit does.  (number_input has no upper
\* limit and the stores hold no negative minutes; the selectbox falls back
\* to its first option, line 392.)
OutOfRange(c, existing_data) ==
    /\ categories(c).type = "slider"
    /\ LET v == default_val(c, existing_data)[2] IN v < SliderMin \/ v > SliderMax

\* The values a widget can hand to the handler on a page that shows the
\* row existing_data
WidgetValuesFor(c, existing_data) ==
    WidgetValues(c) \cup
        (IF OutOfRange(c, existing_data) THEN {default_val(c, existing_data)} ELSE {})

\* A form holds, for every field, a value its widget can return on that page
WidgetsAllow(f, existing_data) ==
    \A c \in CategoryNames : f[c] \in WidgetValuesFor(c, existing_data)

\* The forms submitted on that page: every widget at the default of its
\* field, one widget moved, and every widget moved.
FormInputsFor(existing_data) ==
    LET D(c) == FieldDefault(c)
        Mv(c) == WidgetValuesFor(c, existing_data) \ {FieldDefault(c)}
    IN {Form(D("Exercise"), D("THC"), D("Vibe"))}
       \cup {Form(v, D("THC"), D("Vibe")) : v \in Mv("Exercise")}
       \cup {Form(D("Exercise"), v, D("Vibe")) : v \in Mv("THC")}
       \cup {Form(D("Exercise"), D("THC"), v) : v \in Mv("Vibe")}
       \cup {Form(e, t, v) : e \in Mv("Exercise"), t \in Mv("THC"), v \in Mv("Vibe")}

\* The forms of a page whose sliders have their range min..max
FormInputs == FormInputsFor(Row("", Empty, Empty, Empty))

\* lines 462-478: the original value the submitted one is compared with.
\* An empty or NaN original becomes the default of the field's type, and
\* integer and slider originals are converted with int().
EffectiveOriginal(c, original_value) ==
    LET t == categories(c).type
        v1 == IF ~truthy(original_value) \/ isna(original_value)
              THEN FieldDefault(c)
              ELSE original_value
    IN IF t \in {"integer", "slider"}
       THEN IF truthy(v1) /\ ~isna(v1) THEN int(v1) ELSE I(0)
       ELSE v1

\* line 481: mark as changed if value changed
FieldChanged(c, original, nd) ==
    nd[c] # EffectiveOriginal(c, original[c]) /\ ~isna(nd[c])

\* lines 457-483: the changed fields, in the order of the categories
ChangedFields(original, nd) ==
    SelectSeq(CategoryOrder, LAMBDA c : FieldChanged(c, original, nd))

SeqToSet(q) == {q[i] : i \in 1..Len(q)}

\* lines 488-490: df.loc[df['Date'] == date, category] = new_data[category]
\* for every changed field
ApplyChanges(df, date, changed, nd) ==
    [i \in 1..Len(df) |->
        IF df[i].Date = date
        THEN [c \in DOMAIN df[i] |->
                 IF c \in SeqToSet(changed) THEN nd[c] ELSE df[i][c]]
        ELSE df[i]]

\* Mutant: the new row leaves out the fields left at their default.
ConcatRow_SkipsDefaults(df, nd) ==
    Append(df, [c \in DOMAIN nd |->
                   IF c \in CategoryNames /\ nd[c] = FieldDefault(c) THEN NaN ELSE nd[c]])

\* line 517: pd.concat([df, pd.DataFrame([new_data])], ignore_index=True)
ConcatRow(df, nd) == Append(df, nd)

\* lines 422-446: previous_form_values and the marks of a submission
MarkSubmission(pfv, sf, date, f, has_data) ==
    IF date \notin DOMAIN pfv
    THEN [pfv |-> Put(pfv, date, f),
          sf |-> IF ~has_data THEN MarkEach(sf, date, CategoryOrder) ELSE sf]
    ELSE [pfv |-> Put(pfv, date, f),
          sf |-> MarkEach(sf, date,
                     SelectSeq(CategoryOrder, LAMBDA c : pfv[date][c] # f[c]))]

\* ------------------------------------------------------------ state
VARIABLES
    file,                  \* content of TRACKER_FILE
    old_file,              \* content of the Tracker.csv of the old location
    cache,                 \* the st.cache_data entry of load_data
    original_values,       \* st.session_state.original_values
    previous_form_values,  \* st.session_state.previous_form_values
    submitted_fields,      \* st.session_state.submitted_fields
    just_saved,            \* st.session_state.just_saved
    df,                    \* the table the last run ended with
    df_fresh,              \* df was read from the file, after the run's save
    submit_button,         \* the last run was a click on "Save All"
    selected_date_str,     \* the date of the last run
    new_data,              \* the row the last submission carried
    has_data_for_date,     \* line 265 of the last run
    original,              \* line 453: the original values the last update was compared with
    changed_fields,        \* the changed fields the last submission found
    save_success,          \* save_data of the last run: "none", "ok", "failed"
    message,               \* message_container of the last run
    runs,                  \* script runs so far
    faults                 \* writes that raised so far

vars == <<file, old_file, cache, original_values, previous_form_values,
          submitted_fields, just_saved, df, df_fresh, submit_button, selected_date_str,
          new_data, has_data_for_date, original, changed_fields, save_success,
          message, runs, faults>>

\* ------------------------------------------------------------ script
\* lines 239-269: load the table, look the date up, remember the original
\* values of a date seen for the first time
Front(d, f, old, c, ov) ==
    {[df |-> l.df, file |-> l.file, cache |-> l.cache, nfail |-> l.nfail,
      read |-> l.read,
      ov |-> IF d \in DOMAIN ov THEN ov
             ELSE Put(ov, d, get_data_for_date(l.df, d))] :
        l \in load_data(f, old, c)}

\* Mutant: the original values of the date are not replaced after the save.
UpdateBranch_KeepsBaseline(d, nd, fr, js) ==
    LET changed == ChangedFields(fr.ov[d], nd)
        df2 == ApplyChanges(fr.df, d, changed, nd)
    IN IF changed # <<>>
       THEN {[file |-> w.file, cache |-> w.cache,
              ov |-> fr.ov,
              changed |-> changed,
              save |-> IF w.ok THEN "ok" ELSE "failed",
              nfail |-> IF w.ok THEN 0 ELSE 1,
              message |-> "updated", js |-> TRUE, mark_all |-> FALSE] :
                 w \in save_data(fr.file, fr.cache, df2)}
       ELSE {[file |-> fr.file, cache |-> fr.cache, ov |-> fr.ov,
              changed |-> changed, save |-> "none", nfail |-> 0,
              message |-> "nochange", js |-> js, mark_all |-> FALSE]}

\* Mutant: the table is saved also when no field changed.
UpdateBranch_SavesUnchanged(d, nd, fr, js) ==
    LET changed == ChangedFields(fr.ov[d], nd)
        df2 == ApplyChanges(fr.df, d, changed, nd)
    IN {[file |-> w.file, cache |-> w.cache,
         ov |-> IF changed # <<>> THEN Put(fr.ov, d, get_data_for_date(df2, d)) ELSE fr.ov,
         changed |-> changed,
         save |-> IF w.ok THEN "ok" ELSE "failed",
         nfail |-> IF w.ok THEN 0 ELSE 1,
         message |-> IF changed # <<>> THEN "updated" ELSE "nochange",
         js |-> TRUE, mark_all |-> FALSE] :
            w \in save_data(fr.file, fr.cache, df2)}

\* lines 451-511: a record exists for the date
UpdateBranch(d, nd, fr, js) ==
    LET changed == ChangedFields(fr.ov[d], nd)
        df2 == ApplyChanges(fr.df, d, changed, nd)
    IN IF changed # <<>>
       THEN {[file |-> w.file, cache |-> w.cache,
              ov |-> Put(fr.ov, d, get_data_for_date(df2, d)),
              changed |-> changed,
              save |-> IF w.ok THEN "ok" ELSE "failed",
              nfail |-> IF w.ok THEN 0 ELSE 1,
              message |-> "updated", js |-> TRUE, mark_all |-> FALSE] :
                 w \in save_data(fr.file, fr.cache, df2)}
       ELSE {[file |-> fr.file, cache |-> fr.cache, ov |-> fr.ov,
              changed |-> changed, save |-> "none", nfail |-> 0,
              message |-> "nochange", js |-> js, mark_all |-> FALSE]}

\* lines 512-540: no record exists for the date
CreateBranch(d, nd, fr, js) ==
    {[file |-> w.file, cache |-> w.cache,
      ov |-> Put(fr.ov, d, nd),
      changed |-> <<>>,
      save |-> IF w.ok THEN "ok" ELSE "failed",
      nfail |-> IF w.ok THEN 0 ELSE 1,
      message |-> "created", js |-> TRUE, mark_all |-> TRUE] :
         w \in save_data(fr.file, fr.cache, ConcatRow(fr.df, nd))}

\* lines 552-556: the recent-activity table reloads after a save
Recent(t, f, old, c, js) ==
    IF t # EmptyFrame /\ js
    THEN {[df |-> l.df, file |-> l.file, cache |-> l.cache, js |-> FALSE,
           nfail |-> l.nfail, read |-> l.read] :
             l \in load_data(f, old, c)}
    ELSE {[df |-> t, file |-> f, cache |-> c, js |-> js, nfail |-> 0,
           read |-> FALSE]}

NoRow == Row("", Empty, Empty, Empty)

\* ------------------------------------------------------------ initial state
D1 == "2024-01-01"
D2 == "2024-01-02"
RowA == Row(D1, I(30), S("good"), I(1))
RowB == Row(D2, I(0), S("bad"), I(10))
\* a row whose Vibe is above the slider's max (a file edited by hand)
RowC == Row(D1, I(30), S("good"), I(SliderMax + 2))
\* a row whose Vibe is below the slider's min
RowD == Row(D2, I(30), S("good"), I(SliderMin - 1))
\* The tracker file and the legacy file a session can start with: no file,
\* an unreadable file, tables of zero to two days (cells unset, a date
\* spelled otherwise, a date that is no date, a value outside its field's
\* range), with or without a legacy file.
InitStores ==
    {<<Absent, Absent>>, <<Absent, Csv(<<RowB>>)>>, <<Absent, Corrupt>>,
     <<Absent, Csv(<<Row("Jan 2 2024", I(0), S("bad"), I(10))>>)>>,
     <<Corrupt, Absent>>,
     <<Csv(<<>>), Absent>>,
     <<Csv(<<RowA>>), Absent>>, <<Csv(<<RowA>>), Csv(<<RowB>>)>>,
     <<Csv(<<Row(D1, I(30), NaN, NaN)>>), Absent>>,
     <<Csv(<<RowA, RowB>>), Absent>>,
     <<Csv(<<Row("Jan 1 2024", I(30), S("good"), I(1))>>), Absent>>,
     <<Csv(<<RowA, Row(BadDate, I(0), S("bad"), I(10))>>), Absent>>,
     <<Csv(<<RowC, RowD>>), Absent>>}

\* The stores of the sessions followed for more runs, on the first date
SessionStores ==
    {<<Absent, Absent>>,
     <<Csv(<<Row(D1, I(30), NaN, NaN)>>), Absent>>,
     <<Csv(<<RowA, RowB>>), Absent>>}

InitWith(stores) ==
    /\ \E st \in stores : file = st[1] /\ old_file = st[2]
    /\ cache = NoCache
    /\ original_values = EmptyDict
    /\ previous_form_values = EmptyDict
    /\ submitted_fields = EmptyDict
    /\ just_saved = FALSE
    /\ df = EmptyFrame
    /\ df_fresh = FALSE
    /\ submit_button = FALSE
    /\ selected_date_str = ""
    /\ new_data = NoRow
    /\ has_data_for_date = FALSE
    /\ original = NoRow
    /\ changed_fields = <<>>
    /\ save_success = "none"
    /\ message = "none"
    /\ runs = 0
    /\ faults = 0

Init == InitWith(InitStores)
InitSession == InitWith(SessionStores)

\* ------------------------------------------------------------ actions
\* A script run without a click: the page is shown for date d; c is the
\* cache entry as it has aged since the previous run.
View(d, c) ==
    /\ \E fr \in Front(d, file, old_file, c, original_values) :
       \E t \in Recent(fr.df, fr.file, old_file, fr.cache, just_saved) :
          /\ faults + fr.nfail + t.nfail <= MaxFaults
          /\ faults' = faults + fr.nfail + t.nfail
          /\ file' = t.file
          /\ cache' = t.cache
          /\ df' = t.df
          /\ df_fresh' = (fr.read \/ t.read)
          /\ just_saved' = t.js
          /\ original_values' = fr.ov
          /\ has_data_for_date' = data_exists_for_date(fr.df, d)
    /\ submit_button' = FALSE
    /\ selected_date_str' = d
    /\ new_data' = NoRow
    /\ original' = NoRow
    /\ changed_fields' = <<>>
    /\ save_success' = "none"
    /\ message' = "none"
    /\ runs' = runs + 1
    /\ UNCHANGED <<old_file, previous_form_values, submitted_fields>>

\* A click on "Save All" for date d with the widget values f.
Submit(d, f, c) ==
    /\ \E fr \in Front(d, file, old_file, c, original_values) :
       LET has == data_exists_for_date(fr.df, d)
           nd == NewData(d, f)
           existing_data == get_data_for_date(fr.df, d)
           mk == MarkSubmission(previous_form_values, submitted_fields, d, f, has)
       IN /\ WidgetsAllow(f, existing_data)
          /\ \E b \in (IF has THEN UpdateBranch(d, nd, fr, just_saved)
                              ELSE CreateBranch(d, nd, fr, just_saved)) :
             \E l \in load_data(b.file, old_file, b.cache) :
             \E t \in Recent(l.df, l.file, old_file, l.cache, b.js) :
                /\ faults + fr.nfail + b.nfail + l.nfail + t.nfail <= MaxFaults
                /\ faults' = faults + fr.nfail + b.nfail + l.nfail + t.nfail
                /\ file' = t.file
                /\ cache' = t.cache
                /\ df' = t.df
                /\ df_fresh' = (l.read \/ t.read \/ (fr.read /\ b.save = "none"))
                /\ just_saved' = t.js
                /\ original_values' = b.ov
                /\ previous_form_values' = mk.pfv
                /\ submitted_fields' =
                      IF b.mark_all THEN MarkEach(mk.sf, d, CategoryOrder) ELSE mk.sf
                /\ has_data_for_date' = has
                /\ new_data' = nd
             /\ original' = (IF has THEN fr.ov[d] ELSE NoRow)
                /\ changed_fields' = b.changed
                /\ save_success' = b.save
                /\ message' = b.message
    /\ submit_button' = TRUE
    /\ selected_date_str' = d
    /\ runs' = runs + 1
    /\ UNCHANGED old_file

\* A click on "Force Reload Data File" (lines 690-693): the run of the
\* click, load_data.clear(), and the rerun it asks for.
ForceReload(d, c) ==
    /\ \E fr \in Front(d, file, old_file, c, original_values) :
       \E t \in Recent(fr.df, fr.file, old_file, fr.cache, just_saved) :
       \E fr2 \in Front(d, t.file, old_file, NoCache, fr.ov) :
       \E t2 \in Recent(fr2.df, fr2.file, old_file, fr2.cache, t.js) :
          /\ faults + fr.nfail + t.nfail + fr2.nfail + t2.nfail <= MaxFaults
          /\ faults' = faults + fr.nfail + t.nfail + fr2.nfail + t2.nfail
          /\ file' = t2.file
          /\ cache' = t2.cache
          /\ df' = t2.df
          /\ df_fresh' = TRUE
          /\ just_saved' = t2.js
          /\ original_values' = fr2.ov
          /\ has_data_for_date' = data_exists_for_date(fr2.df, d)
    /\ submit_button' = FALSE
    /\ selected_date_str' = d
    /\ new_data' = NoRow
    /\ original' = NoRow
    /\ changed_fields' = <<>>
    /\ save_success' = "none"
    /\ message' = "none"
    /\ runs' = runs + 1
    /\ UNCHANGED <<old_file, previous_form_values, submitted_fields>>

\* A script run that ends in the form: a widget raised on the value the
\* row of the date holds, nothing after line 408 runs.
FormError(d, c) ==
    /\ \E fr \in Front(d, file, old_file, c, original_values) :
          /\ \E k \in CategoryNames : OutOfRange(k, get_data_for_date(fr.df, d))
          /\ faults + fr.nfail <= MaxFaults
          /\ faults' = faults + fr.nfail
          /\ file' = fr.file
          /\ cache' = fr.cache
          /\ df' = fr.df
          /\ df_fresh' = fr.read
          /\ original_values' = fr.ov
          /\ has_data_for_date' = data_exists_for_date(fr.df, d)
    /\ submit_button' = FALSE
    /\ selected_date_str' = d
    /\ new_data' = NoRow
    /\ original' = NoRow
    /\ changed_fields' = <<>>
    /\ save_success' = "none"
    /\ message' = "exception"
    /\ runs' = runs + 1
    /\ UNCHANGED <<old_file, previous_form_values, submitted_fields, just_saved>>

\* every form some page can submit: the forms of the page that shows the
\* row kept with the widest slider (FormInputs is a part of it)
AllForms == FormInputsFor(RowC)

\* the cache entry after any of the modelled waits
Aged == {Elapse(cache, dt) : dt \in Elapsed}

Next ==
    \/ \E d \in Dates, c \in Aged : runs < MaxRuns /\ View(d, c)
    \/ \E d \in Dates, f \in AllForms, c \in Aged :
          runs < MaxRuns /\ Submit(d, f, c)
    \/ \E d \in Dates, c \in Aged : runs < MaxRuns /\ ForceReload(d, c)
    \/ \E d \in Dates, c \in Aged : runs < MaxRuns /\ FormError(d, c)

\* Every initial store, any date, MaxRuns runs
Spec == Init /\ [][Next]_vars

NextSession ==
    \/ \E c \in Aged : runs < MaxSessionRuns /\ View(D1, c)
    \/ \E f \in FormInputs, c \in Aged :
          runs < MaxSessionRuns /\ Submit(D1, f, c)
    \/ \E c \in Aged : runs < MaxSessionRuns /\ ForceReload(D1, c)

\* A session that stays on the first date, MaxSessionRuns runs
SpecSession == InitSession /\ [][NextSession]_vars

\* Another process replaces the tracker file between two script runs; the
\* session is not told (nothing in the script watches the file, the next
\* pd.read_csv of line 104 is the first to see it).
ExternalEdit(rows) ==
    /\ file # Csv(rows)
    /\ file' = Csv(rows)
    /\ UNCHANGED <<old_file, cache, original_values, previous_form_values,
                   submitted_fields, just_saved, df, df_fresh, submit_button,
                   selected_date_str, new_data, has_data_for_date, original,
                   changed_fields, save_success, message, runs, faults>>

\* what the other process writes
ExternalRows == {<<RowA>>, <<RowB>>, <<RowA, RowB>>}

\* the waits between two runs of the session that is followed for its
\* cache: none, half the ttl of line 78, the whole ttl
CacheWaits == {0, TTL \div 2, TTL}

CacheStores == {<<Csv(<<RowA>>), Absent>>, <<Csv(<<>>), Absent>>}

InitCache == InitWith(CacheStores)

NextCache ==
    \/ \E d \in Dates, dt \in CacheWaits :
          runs < MaxCacheRuns /\ View(d, Elapse(cache, dt))
    \/ \E dt \in CacheWaits :
          runs < MaxCacheRuns /\ ForceReload(D1, Elapse(cache, dt))
    \/ \E rows \in ExternalRows : ExternalEdit(rows)

\* A session that only looks at the page while another process edits the
\* tracker file, MaxCacheRuns runs
SpecCache == InitCache /\ [][NextCache]_vars

\* ------------------------------------------------------------ claims
\* The record the tracker file holds for a canonical date, if any
HasRecord(f, d) ==
    /\ f.kind = "csv"
    /\ \E i \in 1..Len(f.rows) : to_datetime_strftime(f.rows[i].Date) = d
StoredRecord(f, d) ==
    f.rows[CHOOSE i \in 1..Len(f.rows) : to_datetime_strftime(f.rows[i].Date) = d]
\* The last step was a click on "Save All"
Submitted == submit_button' /\ runs' = runs + 1
\* The fields the last submission wrote
WrittenFields == IF has_data_for_date THEN SeqToSet(changed_fields) ELSE CategoryNames
\* A stored value with the default in the place of an unset one
Effective(c, v) == IF v = NaN \/ v = Empty THEN FieldDefault(c) ELSE v

\* C1: a submit that repeats, for the same date, the values of a submit
\* that was just persisted reports "no changes" and writes nothing.
C1_Idempotence ==
    [][(/\ submit_button /\ save_success = "ok"
        /\ Submitted
        /\ selected_date_str' = selected_date_str
        /\ new_data' = new_data)
       => (message' = "nochange" /\ save_success' = "none" /\ file' = file)]_vars

\* C2: an update of an existing record overwrites in the stored record
\* the fields reported as updated, which are the fields whose submitted
\* value differs from the effective baseline, and leaves every other field
\* of that record as it was in the store.
C2_PartialUpdate ==
    [][(/\ Submitted
        /\ has_data_for_date' /\ save_success' = "ok"
        /\ HasRecord(file, selected_date_str'))
       => /\ HasRecord(file', selected_date_str')
          /\ selected_date_str' \in DOMAIN original_values =>
                SeqToSet(changed_fields') =
                   {c \in CategoryNames :
                       new_data'[c] #
                          Effective(c, original_values[selected_date_str'][c])}
          /\ \A c \in CategoryNames :
                StoredRecord(file', selected_date_str')[c] =
                   IF c \in SeqToSet(changed_fields')
                   THEN new_data'[c]
                   ELSE StoredRecord(file, selected_date_str')[c]]_vars

\* C3: after a submit whose save succeeded, the table the run reloads
\* holds a row for the date with the submitted value in every written
\* field, and is the content of the file.
C3_ReadYourWrites ==
    (submit_button /\ save_success = "ok") =>
        /\ data_exists_for_date(df, selected_date_str)
        /\ \A c \in WrittenFields :
              get_data_for_date(df, selected_date_str)[c] = new_data[c]
        /\ file.kind = "csv" /\ df = file.rows

C3_Witness ==
    /\ submit_button /\ save_success = "ok"
    /\ message = "updated" /\ changed_fields = <<"Vibe">>

OneRowPerDate(rows) ==
    \A i, j \in 1..Len(rows) :
        i # j => to_datetime_strftime(rows[i].Date) # to_datetime_strftime(rows[j].Date)
C5_KeyUnique ==
    /\ OneRowPerDate(file.rows)
    /\ OneRowPerDate(cache.df)
    /\ OneRowPerDate(df)

C5_Witness ==
    /\ faults > 0 /\ submit_button /\ ~has_data_for_date
    /\ save_success = "ok" /\ Len(file.rows) > 1

\* C6: a save that fails leaves the table the tracker file held as it was.
C6_AllOrNothing ==
    [][(/\ Submitted /\ save_success' = "failed"
        /\ \E d \in Dates : HasRecord(file, d))
       => file' = file]_vars

\* C7: a submit whose save failed is not reported as a creation or an update.
C7_FailureReported ==
    save_success = "failed" => message \notin {"created", "updated"}

\* C8: after a submit whose save failed and left the values out of the
\* file, the same values submitted again for that date are written again,
\* and are the stored record when that save succeeds.
C8_RetryAfterFailure ==
    [][(/\ submit_button /\ save_success = "failed"
        /\ ~(/\ HasRecord(file, selected_date_str)
             /\ \A c \in CategoryNames :
                   StoredRecord(file, selected_date_str)[c] = new_data[c])
        /\ Submitted
        /\ selected_date_str' = selected_date_str
        /\ new_data' = new_data)
       => /\ message' # "nochange"
          /\ save_success' # "none"
          /\ save_success' = "ok" =>
                /\ HasRecord(file', selected_date_str')
                /\ \A c \in CategoryNames :
                      StoredRecord(file', selected_date_str')[c] = new_data'[c]]_vars

\* C9: a record the tracker file holds for a date is still in the file
\* after a page view, and after a submit for another date, in which no
\* write raised.
C9_NoDataLoss ==
    [][\A d \in Dates :
          (/\ HasRecord(file, d)
           /\ faults' = faults
           /\ ~(submit_button' /\ selected_date_str' = d))
          => HasRecord(file', d)]_vars

\* C10: a table read from a missing, unreadable or unparseable tracker
\* file is the empty table, in which no date exists.
Unreadable(f) ==
    \/ f.kind = "corrupt"
    \/ f.kind = "csv" /\ \E i \in 1..Len(f.rows) : ~Parseable(f.rows[i].Date)
C10_LoadNeverFails ==
    (df_fresh /\ (file.kind = "absent" \/ Unreadable(file))) =>
        /\ df = EmptyFrame
        /\ \A d \in Dates : ~data_exists_for_date(df, d)

C10_Witness ==
    df_fresh /\ faults > 0 /\ file.kind = "corrupt" /\ original_values # EmptyDict

\* The value domain of a field: non-negative minutes, one of the enum
\* values, an integer of min..max
InDomain(c, v) ==
    CASE categories(c).type = "integer" -> v[1] = "int" /\ v[2] >= 0
      [] categories(c).type = "enum" -> v \in SeqToSet([i \in 1..Len(EnumValues) |-> S(EnumValues[i])])
      [] categories(c).type = "slider" ->
            v[1] = "int" /\ v[2] >= SliderMin /\ v[2] <= SliderMax

\* C11: a submission whose values are all in their fields' domains, a
\* slider at min or at max included, is processed; a submission holding a
\* value outside its field's domain is rejected before the comparison:
\* no save is attempted, the file and the baseline of the date stay as
\* they were, and none of the three outcomes is reported.
C11_DomainValidation ==
    [][Submitted =>
          IF \A c \in CategoryNames : InDomain(c, new_data'[c])
          THEN message' \in {"created", "updated", "nochange"}
          ELSE /\ message' \notin {"created", "updated", "nochange"}
               /\ save_success' = "none"
               /\ file' = file
               /\ selected_date_str' \in DOMAIN original_values =>
                     original_values'[selected_date_str'] =
                        original_values[selected_date_str']]_vars

\* The contents the tracker file can have after the table read from it
\* (lines 101-110) is saved as it is (line 188) and the save succeeds
RoundTrip(f) ==
    {w.file : w \in {x \in save_data(f, NoCache, ReadTracker(f)) : x.ok}}
\* Every date of the file is a date in the form YYYY-MM-DD
CanonicalDates(f) ==
    /\ f.kind = "csv"
    /\ \A i \in 1..Len(f.rows) :
          Parseable(f.rows[i].Date) /\ to_datetime_strftime(f.rows[i].Date) = f.rows[i].Date

Unset(v) == v = NaN \/ v = Empty
\* The baseline value of a field if set, the field's default otherwise
EffectiveBaseline(c, v) == IF Unset(v) THEN FieldDefault(c) ELSE v

\* C13: in an update of an existing record the changed fields are the
\* fields whose submitted value is not NaN and differs from the effective
\* baseline (the baseline value if set, the default of the field
\* otherwise); a default submitted for a field whose baseline is unset is
\* no change, and the field stays unset in the stored record.
C13_ChangeRule ==
    [][(Submitted /\ has_data_for_date') =>
          /\ SeqToSet(changed_fields') =
                {c \in CategoryNames :
                    /\ ~isna(new_data'[c])
                    /\ new_data'[c] # EffectiveBaseline(c, original'[c])}
          /\ \A c \in CategoryNames :
                (/\ Unset(original'[c]) /\ new_data'[c] = FieldDefault(c)
                 /\ HasRecord(file, selected_date_str')
                 /\ Unset(StoredRecord(file, selected_date_str')[c])
                 /\ save_success' = "ok")
                => /\ c \notin SeqToSet(changed_fields')
                   /\ HasRecord(file', selected_date_str')
                   /\ Unset(StoredRecord(file', selected_date_str')[c])]_vars

\* C14: once remembered, the baseline of a date is replaced by a submit
\* for that date whose save succeeded, by the record just stored, and by
\* nothing else: not by a page view, a submit for another date, a submit
\* whose save failed or a submit that found no change.
C14_BaselineReplacedOnSuccess ==
    [][/\ \A d \in DOMAIN original_values :
             ~(Submitted /\ save_success' = "ok" /\ selected_date_str' = d)
                => (d \in DOMAIN original_values' /\ original_values'[d] = original_values[d])
       /\ (Submitted /\ save_success' = "ok") =>
             /\ HasRecord(file', selected_date_str')
             /\ original_values'[selected_date_str'] =
                   StoredRecord(file', selected_date_str')]_vars

\* C15: a submit that follows, for the same date, a submit whose save
\* succeeded finds the record and is compared with the record just stored;
\* a field the first submit changed from a to b and the second submits as
\* a again is reported as updated and, the save succeeding, holds a in the
\* stored record.
C15_DiffAgainstLatest ==
    [][(/\ submit_button /\ save_success = "ok"
        /\ Submitted
        /\ selected_date_str' = selected_date_str)
       => /\ has_data_for_date'
          /\ HasRecord(file, selected_date_str)
          /\ original' = StoredRecord(file, selected_date_str)
          /\ \A c \in SeqToSet(changed_fields) :
                new_data'[c] = EffectiveBaseline(c, original[c]) =>
                   /\ c \in SeqToSet(changed_fields')
                   /\ message' = "updated"
                   /\ save_success' = "ok" =>
                         StoredRecord(file', selected_date_str')[c] = new_data'[c]]_vars

C15_Witness ==
    /\ runs = 2 /\ faults = 0 /\ selected_date_str = D1
    /\ submit_button /\ has_data_for_date /\ save_success = "ok"
    /\ is_field_submitted(submitted_fields, D1, "Vibe")
    /\ changed_fields = <<"Vibe">>
    /\ original["Vibe"] = I(SliderMax) /\ new_data["Vibe"] = I(SliderMin)
    /\ StoredRecord(file, D1)["Vibe"] = I(SliderMin)

\* C16: a submit for a date that has a record and finds no changed field
\* reports "no changes", which is neither the creation nor the update
\* message, and calls no save: the tracker file is as the load of the run
\* found it (or migrated it from the old location), the cache entry is
\* the one held before, or one read from the file because that one had
\* expired, and every remembered baseline is as it was.
C16_NoChangeNoEffect ==
    [][(Submitted /\ has_data_for_date' /\ changed_fields' = <<>>)
       => /\ message' = "nochange"
          /\ message' \notin {"created", "updated"}
          /\ save_success' = "none"
          /\ file' \in {m.file : m \in Migrate(file, old_file)}
          /\ \/ cache' = cache
             \/ /\ df_fresh'
                /\ cache' = [full |-> TRUE, df |-> ReadTracker(file'), age |-> 0]
          /\ \A d \in DOMAIN original_values :
                original_values'[d] = original_values[d]]_vars

C16_Witness ==
    /\ submit_button /\ has_data_for_date /\ message = "nochange"
    /\ ~df_fresh /\ faults > 0
    /\ file.kind = "csv" /\ cache.full /\ cache.df # file.rows

\* C17: a submit whose save succeeded leaves no cache entry from before
\* the write: the entry held at the end of the run, and the table of the
\* run, were read from the file as written; and the table of the run that
\* follows, cached or read again, is the table of that file.
C17_CacheClearedOnWrite ==
    [][/\ (Submitted /\ save_success' = "ok") =>
             /\ file'.kind = "csv"
             /\ df_fresh'
             /\ df' = ReadTracker(file')
             /\ cache' = [full |-> TRUE, df |-> ReadTracker(file'), age |-> 0]
       /\ (submit_button /\ save_success = "ok" /\ runs' = runs + 1 /\ ~submit_button') =>
             /\ file' = file
             /\ df' = ReadTracker(file)
             /\ cache'.df = ReadTracker(file)]_vars

C17_Witness ==
    /\ ~submit_button /\ message = "none" /\ faults = 0 /\ ~df_fresh
    /\ selected_date_str \in DOMAIN submitted_fields
    /\ file.kind = "csv" /\ Len(file.rows) > 1 /\ df = file.rows
    /\ data_exists_for_date(df, selected_date_str)

\* The rows of a file whose date parses, with the date in canonical form
ParseableRows(f) ==
    LET good == SelectSeq(f.rows, LAMBDA r : Parseable(r.Date))
    IN [i \in 1..Len(good) |-> [good[i] EXCEPT !.Date = to_datetime_strftime(@)]]

\* C18: the table read from a tracker file holds every row of the file
\* whose date parses; a row whose date does not parse is left out alone.
C18_BadRowSkipped ==
    (df_fresh /\ file.kind = "csv") => df = ParseableRows(file)

\* A date string in the form YYYY-MM-DD
Canonical(s) == Parseable(s) /\ to_datetime_strftime(s) = s

\* C19: every date of a table the program loads, and every date of a
\* tracker file the program wrote, is in the form YYYY-MM-DD; a date
\* exists in the table read from a file exactly when the file holds a row
\* for that day, however the file spells it.
C19_CanonicalDates ==
    [][/\ \A i \in 1..Len(df') : Canonical(df'[i].Date)
       /\ \A i \in 1..Len(cache'.df) : Canonical(cache'.df[i].Date)
       /\ (file' # file /\ file'.kind = "csv") =>
             \A i \in 1..Len(file'.rows) : Canonical(file'.rows[i].Date)
       /\ (df_fresh' /\ file'.kind = "csv" /\ ~Unreadable(file')) =>
             \A d \in Dates : data_exists_for_date(df', d) <=> HasRecord(file', d)]_vars

\* C20: a submit for a date leaves every row the tracker file holds for
\* another day in the file, with its day and the value of every field as
\* they were, and leaves the row of its own day, if the file holds one, a
\* row of that day.
C20_RowIsolation ==
    [][Submitted =>
          \A i \in 1..Len(file.rows) :
             \E j \in 1..Len(file'.rows) :
                /\ to_datetime_strftime(file'.rows[j].Date) =
                      to_datetime_strftime(file.rows[i].Date)
                /\ to_datetime_strftime(file.rows[i].Date) # selected_date_str' =>
                      \A c \in CategoryNames : file'.rows[j][c] = file.rows[i][c]]_vars

\* C21: a script run shows either the table it has just read from the
\* tracker file, or the cached table of an entry that was read less than TTL
\* time units before; so what another process wrote to the file is shown
\* by every run that comes TTL time units or more after the entry was read,
\* and by the run that follows a clearing of the cache.
C21_CacheStaleness ==
    [][runs' = runs + 1 =>
          /\ cache'.full
          /\ cache'.age < TTL
          /\ cache'.df = df'
          /\ IF df_fresh'
             THEN cache'.age = 0 /\ df' = ReadTracker(file')
             ELSE /\ cache.full
                  /\ df' = cache.df
                  /\ cache'.age \in {cache.age + dt : dt \in CacheWaits}]_vars

\* the first date was shown from the file's first content, another process
\* replaced the file, and a later run has read and shows the new content
C21_Witness ==
    /\ D1 \in DOMAIN original_values
    /\ original_values[D1] = RowA
    /\ file = Csv(<<RowB>>)
    /\ df_fresh
    /\ df = <<RowB>>
    /\ message = "none"

\* the fields marked as submitted for a date
MarkedFields(sf, d) == {c \in CategoryNames : is_field_submitted(sf, d, c)}

\* C22: a submit that creates a record leaves every field marked as
\* submitted for the date; a submit for an existing record adds to the marks
\* of the date exactly the fields it reports as updated.
C22_SubmittedMarking ==
    [][Submitted =>
          MarkedFields(submitted_fields', selected_date_str') =
             IF has_data_for_date'
             THEN MarkedFields(submitted_fields, selected_date_str')
                     \cup SeqToSet(changed_fields')
             ELSE CategoryNames]_vars

\* C23: when a submit for a date whose record is in the tracker file
\* reports "no changes", every field of that record holds, with the default
\* in the place of an unset value, the value that was submitted.
C23_NoChangeSound ==
    [][(/\ Submitted
        /\ has_data_for_date'
        /\ message' = "nochange"
        /\ HasRecord(file', selected_date_str'))
       => \A c \in CategoryNames :
             Effective(c, StoredRecord(file', selected_date_str')[c]) =
                new_data'[c]]_vars

\* C24: no step removes a mark: every date that has a list of submitted
\* fields keeps it, the list only grows at its end, and no field is in a
\* list twice.
C24_MarksMonotone ==
    [][/\ \A d \in DOMAIN submitted_fields :
             /\ d \in DOMAIN submitted_fields'
             /\ Len(submitted_fields[d]) <= Len(submitted_fields'[d])
             /\ SubSeq(submitted_fields'[d], 1, Len(submitted_fields[d])) =
                   submitted_fields[d]
       /\ \A d \in DOMAIN submitted_fields' :
             \A i, j \in 1..Len(submitted_fields'[d]) :
                submitted_fields'[d][i] = submitted_fields'[d][j] => i = j]_vars

\* a submit for a date whose fields were all marked by an earlier submit
\* has just failed to save, and the marks are still there
C24_Witness ==
    /\ submit_button
    /\ has_data_for_date
    /\ save_success = "failed"
    /\ selected_date_str \in DOMAIN submitted_fields
    /\ Len(submitted_fields[selected_date_str]) = Len(CategoryOrder)

\* C25: a script run that only loads (no click on "Save All") leaves a
\* tracker file that exists as it is, whatever the old location holds; it
\* changes the tracker file only when that file is missing and the old
\* location holds a table, and then to what copying that table writes.
C25_MigrationKeepsData ==
    [][(runs' = runs + 1 /\ ~submit_button') =>
          /\ file.kind # "absent" => file' = file
          /\ file' # file =>
                /\ file.kind = "absent"
                /\ old_file.kind = "csv"
                /\ file' \in {w.file : w \in to_csv(file, old_file.rows)}]_vars

\* both locations hold a table, a run has read the tracker file, and the
\* tracker file still holds its own table
C25_Witness ==
    /\ file = Csv(<<RowA>>)
    /\ old_file = Csv(<<RowB>>)
    /\ ~submit_button
    /\ df_fresh
    /\ df = <<RowA>>

====
